---- MODULE Spec2Model ----
(***************************************************************************)
(* Retrieval strategy engine of the PDF / YouTube question answering       *)
(* service (app/qdrant_utils.py) and the two smart query endpoints that    *)
(* call it (app/main.py).                                                  *)
(*                                                                         *)
(* The vector store is an external service.  What the program sees of it   *)
(* is the list of chunks it returns for the pending query, nearest first.  *)
(* The variable ranking is that list for the whole stored corpus: chunk i  *)
(* is the i-th nearest, score is its distance to the query.  A search      *)
(* with limit n returns the first n entries.  Scores are integers (a      *)
(* distance in fixed units); a mean is kept as an exact fraction.  The     *)
(* order of the list is the store's: nothing here assumes that it is the   *)
(* order of the scores, so the engine's own sorting is what orders them.   *)
(*                                                                         *)
(* request, search_result and response describe the request being served;  *)
(* calls lists, in order, the calls the handler made to the services and   *)
(* helpers outside it (vector store, completion service, transcript        *)
(* service) while serving it.                                              *)
(*                                                                         *)
(* inflight holds, for each worker that serves ingestion requests side by  *)
(* side, the ingestion it is in; ingested counts, per source, the chunks   *)
(* handed to the calls of create_embeddings_and_store_qdrant that have     *)
(* returned.                                                               *)
(***************************************************************************)
EXTENDS Integers, Sequences, FiniteSets, TLC

VARIABLES ranking, request, search_result, response, calls, inflight, ingested

vars == <<ranking, request, search_result, response, calls, inflight, ingested>>

\* ---- bounds of the model ----
MaxChunks == 4
MaxK == 4
\* chunks stored in the specifications of the endpoints
MaxStored == 2
\* files of one /upload-pdf/ request
MaxFiles == 2

\* A string whose content matters (a source name, a video id, a URL path) is
\* the sequence of its pieces; the pieces are chosen so that none is a prefix
\* of another and none occurs inside a concatenation of the others.
Tokens == {".pdf", ".txt", "/", "a", "b", "video_", "watch", "x", "y"}

Sources == {<<"a", ".pdf">>, <<"b", ".pdf">>,
            <<"video_", "x", ".txt">>, <<"video_", "y", ".txt">>}
\* distances to the pending query, in fixed units
Scores == {1, 2}
Ks == 1..MaxK
\* "semantic" stands for any strategy name the engine does not know
Strategies == {"best_match", "multi_doc", "single_source", "semantic"}
ContentTypes == {"all", "pdf", "video"}
\* the completion service answers, or the client cannot be built, or the
\* completion call fails
LlmOutcomes == {"ok", "client_error", "completion_error"}

None == [kind |-> "none"]

Min2(a, b) == IF a < b THEN a ELSE b

\* ---- python helpers ----

\* str.startswith("video_")
startswith_video(s) == s # <<>> /\ s[1] = "video_"

\* str.endswith(".txt")
endswith_txt(s) == s # <<>> /\ s[Len(s)] = ".txt"

\* the order of the pieces as strings: '.' < '/' < 'a' < 'b' < 'v' < 'w' < 'x'
TokenRank ==
  (".pdf" :> 1) @@ (".txt" :> 2) @@ ("/" :> 3) @@ ("a" :> 4) @@ ("b" :> 5)
  @@ ("video_" :> 6) @@ ("watch" :> 7) @@ ("x" :> 8) @@ ("y" :> 9)

\* s < t on strings
RECURSIVE str_less(_, _)
str_less(s, t) ==
  IF t = <<>> THEN FALSE
  ELSE IF s = <<>> THEN TRUE
  ELSE IF Head(s) = Head(t) THEN str_less(Tail(s), Tail(t))
  ELSE TokenRank[Head(s)] < TokenRank[Head(t)]

\* sorted(list(S)) of a set of strings
RECURSIVE sorted_list(_)
sorted_list(S) ==
  IF S = {} THEN <<>>
  ELSE LET m == CHOOSE m \in S : \A x \in S \ {m} : str_less(m, x)
       IN <<m>> \o sorted_list(S \ {m})

\* keys of a dict filled while walking srcs: distinct, first occurrence order
RECURSIVE dict_keys(_)
dict_keys(srcs) ==
  IF srcs = <<>> THEN <<>>
  ELSE LET init == dict_keys(SubSeq(srcs, 1, Len(srcs) - 1))
           last == srcs[Len(srcs)]
       IN IF \E i \in 1..Len(init) : init[i] = last THEN init ELSE Append(init, last)

RECURSIVE SeqSum(_)
SeqSum(s) == IF s = <<>> THEN 0 ELSE Head(s) + SeqSum(Tail(s))

\* mutation of np_mean: the sum is not divided by the number of scores
np_mean_sum(scores) == [num |-> SeqSum(scores), den |-> 1]

\* np.mean of a non-empty list, as the exact fraction sum / len
np_mean(scores) == [num |-> SeqSum(scores), den |-> Len(scores)]

FracLess(a, b) == a.num * b.den < b.num * a.den

\* min(keys, key=...): the first of the keys whose key value is minimal
py_min(keys, keyOf) ==
  LET i == CHOOSE i \in 1..Len(keys) :
             /\ \A j \in 1..Len(keys) : ~FracLess(keyOf[keys[j]], keyOf[keys[i]])
             /\ \A j \in 1..(i - 1) : FracLess(keyOf[keys[i]], keyOf[keys[j]])
  IN keys[i]

\* mutation of py_sorted: the items are left in the order given
py_sorted_none(items) == items

\* sorted(items, key=...): stable, ascending; items are [key, val] records
RECURSIVE py_sorted(_)
py_sorted(items) ==
  IF items = <<>> THEN <<>>
  ELSE LET rest == py_sorted(Tail(items))
           h == Head(items)
           n == Cardinality({i \in 1..Len(rest) : rest[i].key < h.key})
       IN SubSeq(rest, 1, n) \o <<h>> \o SubSeq(rest, n + 1, Len(rest))

\* min([...]) of a non-empty list of integers
list_min(s) == CHOOSE m \in {s[i] : i \in 1..Len(s)} : \A i \in 1..Len(s) : m <= s[i]

SeqMap(s, F(_)) == [i \in 1..Len(s) |-> F(s[i])]

\* ---- vector store ----

Doc(rk, i) == [source |-> rk[i].source, id |-> i]

\* vectorstore.similarity_search_with_score(query, k=n): (doc, score) pairs
similarity_search_with_score(rk, n) ==
  [i \in 1..Min2(n, Len(rk)) |-> [doc |-> Doc(rk, i), score |-> rk[i].score]]

\* vectorstore.similarity_search(query, k=n)
similarity_search(rk, n) == [i \in 1..Min2(n, Len(rk)) |-> Doc(rk, i)]

\* ---- retrieval strategy engine: smart_document_search ----

\* mutation of MaxSourcesUsed: the loop admits one source more
MaxSourcesUsed_off == 3 + 1

OverFetchBestMatch == 5
OverFetchMultiDoc == 3
MaxSourcesUsed == 3
ChunksPerSource == 2

\* mutation of py_head: seq[-k:], the last k instead of the first k
py_head_last(seq, k) == SubSeq(seq, Len(seq) - Min2(k, Len(seq)) + 1, Len(seq))

\* seq[:k] for k >= 0
py_head(seq, k) == SubSeq(seq, 1, Min2(k, Len(seq)))

\* the entries of a batch of (doc, score) pairs that belong to source s
group_of(batch, s) == SelectSeq(batch, LAMBDA e : e.doc.source = s)

\* best_doc = min(doc_scores.keys(), key=lambda x: np.mean(doc_scores[x]))
best_doc_of(keys, means) == py_min(keys, means)

best_match(rk, k) ==
  LET retrieved_chunks == similarity_search_with_score(rk, k * OverFetchBestMatch)
      keys == dict_keys(SeqMap(retrieved_chunks, LAMBDA e : e.doc.source))
      keyset == {keys[i] : i \in 1..Len(keys)}
      doc_scores == [s \in keyset |->
                       SeqMap(group_of(retrieved_chunks, s), LAMBDA e : e.score)]
      doc_chunks == [s \in keyset |->
                       SeqMap(group_of(retrieved_chunks, s), LAMBDA e : e.doc)]
      means == [s \in keyset |-> np_mean(doc_scores[s])]
  IN IF keys = <<>>
     THEN [raised |-> "ValueError"]   \* min() arg is an empty sequence
     ELSE LET best_doc == best_doc_of(keys, means)
          IN [chunks |-> py_head(doc_chunks[best_doc], k),
              primary_source |-> best_doc,
              strategy_used |-> "best_match",
              document_scores |-> means]

\* sorted(doc_groups.keys(), key=lambda x: min(score for _, score in doc_groups[x]))
sources_by_min_score(batch) ==
  LET keys == dict_keys(SeqMap(batch, LAMBDA e : e.doc.source))
      keyed == SeqMap(keys, LAMBDA s :
                 [key |-> list_min(SeqMap(group_of(batch, s), LAMBDA e : e.score)),
                  val |-> s])
  IN SeqMap(py_sorted(keyed), LAMBDA e : e.val)

\* [doc for doc, _ in sorted(doc_groups[source], key=lambda x: x[1])[:2]]
chunks_from_source(batch, s) ==
  LET keyed == SeqMap(group_of(batch, s), LAMBDA e : [key |-> e.score, val |-> e.doc])
  IN SeqMap(py_head(py_sorted(keyed), ChunksPerSource), LAMBDA e : e.val)

\* the loop over the ordered sources: state is (final_chunks, sources_used)
RECURSIVE multi_doc_loop(_, _, _, _)
multi_doc_loop(batch, order, final_chunks, sources_used) ==
  IF order = <<>> THEN [final_chunks |-> final_chunks, sources_used |-> sources_used]
  ELSE IF Len(sources_used) < MaxSourcesUsed
       THEN multi_doc_loop(batch, Tail(order),
                           final_chunks \o chunks_from_source(batch, Head(order)),
                           Append(sources_used, Head(order)))
       ELSE multi_doc_loop(batch, Tail(order), final_chunks, sources_used)

multi_doc(rk, k) ==
  LET retrieved_chunks == similarity_search_with_score(rk, k * OverFetchMultiDoc)
      out == multi_doc_loop(retrieved_chunks, sources_by_min_score(retrieved_chunks),
                            <<>>, <<>>)
  IN [chunks |-> py_head(out.final_chunks, k),
      sources_used |-> out.sources_used,
      strategy_used |-> "multi_doc"]

\* mutation of most_common_1: among equal counts the last source wins
most_common_1_last(sources) ==
  LET keys == dict_keys(sources)
      count(s) == Cardinality({i \in 1..Len(sources) : sources[i] = s})
  IN IF keys = <<>> THEN <<>>
     ELSE LET i == CHOOSE i \in 1..Len(keys) :
                     /\ \A j \in 1..Len(keys) : count(keys[j]) <= count(keys[i])
                     /\ \A j \in (i + 1)..Len(keys) : count(keys[j]) < count(keys[i])
          IN <<keys[i]>>

\* Counter(sources).most_common(1): [] for no source, else the first source
\* (in first occurrence order) whose count is the highest
most_common_1(sources) ==
  LET keys == dict_keys(sources)
      count(s) == Cardinality({i \in 1..Len(sources) : sources[i] = s})
  IN IF keys = <<>> THEN <<>>
     ELSE LET i == CHOOSE i \in 1..Len(keys) :
                     /\ \A j \in 1..Len(keys) : count(keys[j]) <= count(keys[i])
                     /\ \A j \in 1..(i - 1) : count(keys[j]) < count(keys[i])
          IN <<keys[i]>>

\* mutation of filter_source: the retrieved chunks are not filtered
filter_source_none(docs, src) == docs

\* [doc for doc in retrieved_chunks if doc.metadata.get("source") == src]
filter_source(docs, src) == SelectSeq(docs, LAMBDA d : d.source = src)

single_source(rk, k) ==
  LET retrieved_chunks == similarity_search(rk, k)
      sources == SeqMap(retrieved_chunks, LAMBDA d : d.source)
      common == most_common_1(sources)
  IN IF common = <<>>
     THEN [raised |-> "IndexError"]   \* most_common(1)[0] on an empty list
     ELSE [chunks |-> filter_source(retrieved_chunks, common[1]),
           primary_source |-> common[1],
           strategy_used |-> "single_source"]

smart_document_search(rk, k, strategy) ==
  IF strategy = "best_match" THEN best_match(rk, k)
  ELSE IF strategy = "multi_doc" THEN multi_doc(rk, k)
  ELSE single_source(rk, k)

\* ---- answer synthesis ----

\* mutation of ask_azure_openai: the failure is not caught
ask_azure_openai_raises(llm) ==
  IF llm = "ok" THEN [text |-> <<"completion text">>] ELSE [raised |-> llm]

\* ask_azure_openai: the completion text, or, for any exception in the try
\* block, the text f"Error generating response: {str(e)}"
ask_azure_openai(llm) ==
  IF llm = "ok" THEN [text |-> <<"completion text">>]
  ELSE [text |-> <<"Error generating response: ", llm>>]

\* ---- endpoints ----

Has(d, key) == key \in DOMAIN d

\* the metadata keys copied from the search result, document_ renamed source_
Meta(sr, key, as) == IF Has(sr, key) THEN (as :> sr[key]) ELSE << >>

\* body of /smart-query/ between try and except, given the search result
smart_query_response(req, sr, llm) ==
  IF Has(sr, "raised") THEN [status |-> 500, detail |-> sr.raised]
  ELSE IF sr.chunks = <<>>
  THEN [status |-> 200,
        body |-> [answer |-> "No relevant information found for your query.",
                  strategy_used |-> req.strategy]]
  ELSE IF Has(ask_azure_openai(llm), "raised")
  THEN [status |-> 500, detail |-> ask_azure_openai(llm).raised]
  ELSE [status |-> 200,
        body |-> [answer |-> ask_azure_openai(llm).text,
                  strategy_used |-> sr.strategy_used,
                  chunks_used |-> Len(sr.chunks)]
                 @@ Meta(sr, "primary_source", "primary_source")
                 @@ Meta(sr, "sources_used", "sources_used")
                 @@ Meta(sr, "document_scores", "source_scores")]

\* a handler runs when no other request is being served
Idle == request = None

\* the processes that serve requests side by side
Workers == {1, 2}

\* ingested after a store call that took n chunks of a source returned
Add(ing, source, n) ==
  [s \in DOMAIN ing \cup {source} |->
     (IF s \in DOMAIN ing THEN ing[s] ELSE 0) + (IF s = source THEN n ELSE 0)]

\* an entry of calls: the function called and how the call went
Call(fn, outcome) == [fn |-> fn, outcome |-> outcome]

\* an entry of calls that also keeps what the function was called with
CallWith(fn, args, outcome) == [fn |-> fn, args |-> args, outcome |-> outcome]

Outcome(r) == IF Has(r, "raised") THEN "raised" ELSE "returned"

StoreOutcome(store_ok) == IF store_ok THEN "ok" ELSE "store_error"

\* a call of smart_document_search(query, k, strategy) on its own
call_smart_document_search(k, strategy) ==
  /\ Idle
  /\ request' = [endpoint |-> "smart_document_search", k |-> k, strategy |-> strategy]
  /\ search_result' = smart_document_search(ranking, k, strategy)
  /\ response' = None
  /\ calls' = <<Call("smart_document_search",
                      Outcome(smart_document_search(ranking, k, strategy)))>>
  /\ UNCHANGED <<ranking, inflight, ingested>>

\* a call to the vector store that fails raises
StoreError == [raised |-> "ExternalServiceError"]

\* the calls a query handler makes from the search on: the completion
\* service is asked only for a non-empty list of chunks
search_calls(sr, llm) ==
  <<Call("smart_document_search", Outcome(sr))>>
  \o (IF Has(sr, "chunks") /\ sr.chunks # <<>>
      THEN <<Call("ask_azure_openai", llm)>> ELSE <<>>)

smart_query(k, strategy, llm, search_ok) ==
  LET req == [endpoint |-> "/smart-query/", k |-> k, strategy |-> strategy]
      sr == IF search_ok THEN smart_document_search(ranking, k, strategy) ELSE StoreError
  IN /\ Idle
     /\ request' = req
     /\ search_result' = sr
     /\ response' = smart_query_response(req, sr, llm)
     /\ calls' = search_calls(sr, llm)
     /\ UNCHANGED <<ranking, inflight, ingested>>

ListLimit == 1000

\* the source names in sorted() order
SourceOrder == sorted_list(Sources)

\* get_available_documents: the sorted distinct sources of the first
\* ListLimit chunks the store returns for the empty query.  The store ranks
\* the empty query in its own order; below ListLimit chunks every stored
\* chunk is returned, so the order does not matter.
\* A failure of the store is caught and the empty list is returned.
get_available_documents(rk, store_ok) ==
  LET all_docs == similarity_search(rk, ListLimit)
  IN IF store_ok
     THEN sorted_list({all_docs[i].source : i \in 1..Len(all_docs)})
     ELSE <<>>

\* mutation of filtered_docs_of: nothing is filtered out
filtered_docs_of_all(documents, content_type) == documents

\* the content type filter of /smart-query-all/
filtered_docs_of(documents, content_type) ==
  IF content_type = "pdf" THEN SelectSeq(documents, LAMBDA d : ~startswith_video(d))
  ELSE IF content_type = "video" THEN SelectSeq(documents, LAMBDA d : startswith_video(d))
  ELSE documents

\* source_type is set only together with primary_source
SourceType(sr) ==
  IF Has(sr, "primary_source")
  THEN ("source_type" :> (IF startswith_video(sr.primary_source) THEN "video" ELSE "pdf"))
  ELSE << >>

\* body of /smart-query-all/ after the content type check
smart_query_all_response(req, sr, llm) ==
  IF Has(sr, "raised") THEN [status |-> 500, detail |-> sr.raised]
  ELSE IF sr.chunks = <<>>
  THEN [status |-> 200,
        body |-> [answer |-> <<"No relevant information found in ", req.content_type,
                               " content for your query.">>,
                  strategy_used |-> req.strategy,
                  content_type |-> req.content_type]]
  ELSE IF Has(ask_azure_openai(llm), "raised")
  THEN [status |-> 500, detail |-> ask_azure_openai(llm).raised]
  ELSE [status |-> 200,
        body |-> [answer |-> ask_azure_openai(llm).text,
                  strategy_used |-> sr.strategy_used,
                  chunks_used |-> Len(sr.chunks),
                  content_type |-> req.content_type]
                 @@ Meta(sr, "primary_source", "primary_source")
                 @@ SourceType(sr)
                 @@ Meta(sr, "sources_used", "sources_used")
                 @@ Meta(sr, "document_scores", "source_scores")]

smart_query_all_content(k, strategy, content_type, llm, list_ok, search_ok) ==
  LET req == [endpoint |-> "/smart-query-all/", k |-> k, strategy |-> strategy,
              content_type |-> content_type]
      documents == get_available_documents(ranking, list_ok)
      filtered_docs == filtered_docs_of(documents, content_type)
      sr == IF search_ok THEN smart_document_search(ranking, k, strategy) ELSE StoreError
  IN /\ Idle
     /\ request' = req
     /\ IF filtered_docs = <<>>
        THEN /\ search_result' = None
             /\ response' = [status |-> 200,
                             body |-> [answer |-> <<"No ", content_type,
                                                    " content found in the database.">>,
                                       strategy_used |-> strategy,
                                       content_type |-> content_type]]
             /\ calls' = <<Call("get_available_documents", StoreOutcome(list_ok))>>
        ELSE /\ search_result' = sr
             /\ response' = smart_query_all_response(req, sr, llm)
             /\ calls' = <<Call("get_available_documents", StoreOutcome(list_ok))>>
                          \o search_calls(sr, llm)
     /\ UNCHANGED <<ranking, inflight, ingested>>

\* create_embeddings_and_store_qdrant: the store gains the chunk; for the
\* pending query it ranks at some position pos with some score
create_embeddings_and_store_qdrant(source, score, pos) ==
  /\ Idle
  /\ Len(ranking) < MaxChunks
  /\ ranking' = SubSeq(ranking, 1, pos - 1)
                  \o <<[source |-> source, score |-> score]>>
                  \o SubSeq(ranking, pos, Len(ranking))
  /\ ingested' = Add(ingested, source, 1)
  /\ UNCHANGED <<request, search_result, response, calls, inflight>>

\* the call returns (the response is sent) and the next request can be served
request_done ==
  /\ ~Idle
  /\ request' = None
  /\ search_result' = None
  /\ response' = None
  /\ calls' = <<>>
  /\ UNCHANGED <<ranking, inflight, ingested>>

Init ==
  /\ ranking = <<>>
  /\ request = None
  /\ search_result = None
  /\ response = None
  /\ calls = <<>>
  /\ inflight = [w \in Workers |-> None]
  /\ ingested = << >>

Store ==
  \E s \in Sources, d \in Scores, pos \in 1..(Len(ranking) + 1) :
    create_embeddings_and_store_qdrant(s, d, pos)

\* ingestion into a store of at most MaxStored chunks
StoreSmall == Len(ranking) < MaxStored /\ Store

SmartQuery ==
  \E k \in Ks, st \in Strategies, llm \in LlmOutcomes, search_ok \in BOOLEAN :
    smart_query(k, st, llm, search_ok)

SmartQueryAll ==
  \E k \in Ks, st \in Strategies, ct \in ContentTypes, llm \in LlmOutcomes,
     list_ok \in BOOLEAN, search_ok \in BOOLEAN :
    smart_query_all_content(k, st, ct, llm, list_ok, search_ok)

Search ==
  \E k \in Ks, st \in Strategies : call_smart_document_search(k, st)

\* the strategy engine called on every stored corpus
Next == Store \/ Search \/ request_done

Spec == Init /\ [][Next]_vars

\* the two endpoints that serve a query through the strategy engine
NextAll == StoreSmall \/ SmartQuery \/ SmartQueryAll \/ request_done

SpecAll == Init /\ [][NextAll]_vars

\* ---- YouTube: URLs, transcripts ----

\* video ids; two of them contain the pieces the source convention adds
VideoIds == {<<"x">>, <<"video_", "x">>, <<"x", ".txt">>}

\* what urlparse yields for https://<host>/watch?v=<id> and https://youtu.be/<id>;
\* query is the list of key=value pairs between the '&'
WatchUrl(host, id) ==
  [hostname |-> host, path |-> <<"/", "watch">>,
   query |-> <<[key |-> "v", value |-> id]>>]

ShortUrl(id) == [hostname |-> "youtu.be", path |-> <<"/">> \o id, query |-> <<>>]

\* hostname "" stands for a string urlparse finds no host in
Urls ==
  {WatchUrl("www.youtube.com", id) : id \in VideoIds}
  \cup {ShortUrl(id) : id \in VideoIds}
  \cup {WatchUrl(h, <<"x">>) : h \in {"youtube.com", "m.youtube.com", "example.com"}}
  \cup {[hostname |-> "youtube.com", path |-> <<"/", "watch">>,
         query |-> <<[key |-> "t", value |-> <<"x">>]>>],
        [hostname |-> "www.youtube.com", path |-> <<"/", "watch">>,
         query |-> <<[key |-> "v", value |-> <<>>], [key |-> "v", value |-> <<"x">>]>>],
        [hostname |-> "", path |-> <<"watch">>, query |-> <<>>]}

\* parse_qs: pairs with a blank value are dropped, the values of a key
\* are listed in order
parse_qs(query) ==
  LET kept == SelectSeq(query, LAMBDA p : p.value # <<>>)
  IN [key \in {kept[i].key : i \in 1..Len(kept)} |->
        LET of_key == SelectSeq(kept, LAMBDA p : p.key = key)
        IN [i \in 1..Len(of_key) |-> of_key[i].value]]

\* s[1:]
py_tail(s) == IF s = <<>> THEN <<>> ELSE Tail(s)

CouldNotExtract ==
  [raised |-> "ValueError", msg |-> "Could not extract video ID from URL"]

\* mutation of extract_video_id: the path of a youtu.be URL is returned whole
extract_video_id_path(url) ==
  IF url.hostname \in {"www.youtube.com", "youtube.com"}
     /\ "v" \in DOMAIN parse_qs(url.query)
  THEN [value |-> parse_qs(url.query)["v"][1]]
  ELSE IF url.hostname \in {"youtu.be"} THEN [value |-> url.path]
  ELSE CouldNotExtract

\* extract_video_id: the ValueError raised inside the try is caught and
\* raised again as ValueError("Could not extract video ID from URL: ...")
extract_video_id(url) ==
  IF url.hostname \in {"www.youtube.com", "youtube.com"}
     /\ "v" \in DOMAIN parse_qs(url.query)
  THEN [value |-> parse_qs(url.query)["v"][1]]
  ELSE IF url.hostname \in {"youtu.be"} THEN [value |-> py_tail(url.path)]
  ELSE CouldNotExtract

\* A text is the sequence of its parts: " " is whitespace, "w" a passage of
\* the size of one chunk.
Texts == {<<>>, <<" ">>, <<"w">>, <<" ", "w", " ">>, <<"w", " ", "w">>}

\* str.strip()
RECURSIVE lstrip(_)
lstrip(t) == IF t # <<>> /\ Head(t) = " " THEN lstrip(Tail(t)) ELSE t

RECURSIVE rstrip(_)
rstrip(t) ==
  IF t # <<>> /\ t[Len(t)] = " " THEN rstrip(SubSeq(t, 1, Len(t) - 1)) ELSE t

strip(t) == rstrip(lstrip(t))

\* split_text_into_chunks: one chunk per passage, in reading order (part i
\* is the i-th passage), each with the source name as metadata; whitespace
\* yields no chunk
split_text_into_chunks(text, source_name) ==
  LET passages == SelectSeq(text, LAMBDA c : c # " ")
  IN [i \in 1..Len(passages) |-> [source |-> source_name, part |-> i]]

\* The transcript service as one request finds it: whether
\* get_transcript(video_id) and get_transcript(video_id, languages=[...])
\* answer, whether list_transcripts answers, and for each transcript it
\* lists whether fetch() answers.
\* What the service would answer after the first method that answers is
\* never asked, so it is left at the failing value.
TranscriptEnvs ==
  {env \in [direct : BOOLEAN, langs : BOOLEAN, listed : BOOLEAN,
            fetch : {<<>>, <<TRUE>>, <<FALSE, TRUE>>, <<FALSE, FALSE>>}] :
     /\ env.direct => ~env.langs
     /\ (env.direct \/ env.langs) => ~env.listed
     /\ ~env.listed => env.fetch = <<>>}

\* the texts the three methods yield
DirectText == <<"w">>
LangsText == <<" ", "w", " ">>
FetchedText(i) == IF i = 1 THEN <<"w", " ", "w">> ELSE <<"w", " ">>

Remediation ==
  [raised |-> "RuntimeError",
   msg |-> "Transcript retrieval failed ... YouTube blocking cloud provider IPs (Azure/AWS/GCP) ..."]

PrimaryFailed ==
  [raised |-> "RuntimeError", msg |-> "Primary transcript retrieval failed"]

\* the fetch() calls of the loop over transcript_list: up to the first
\* that answers
fetch_calls(fetch) ==
  LET n == IF \E i \in 1..Len(fetch) : fetch[i]
           THEN CHOOSE i \in 1..Len(fetch) : fetch[i] /\ \A j \in 1..(i - 1) : ~fetch[j]
           ELSE Len(fetch)
  IN [i \in 1..n |-> Call("fetch", IF fetch[i] THEN "ok" ELSE "raised")]

\* mutation of get_youtube_transcript: the restricted-language fetch is
\* tried after the enumeration
get_youtube_transcript_swapped(video_url, use_fallback, env) ==
  LET d == <<Call("get_transcript", IF env.direct THEN "ok" ELSE "raised")>>
      l == <<Call("get_transcript_languages", IF env.langs THEN "ok" ELSE "raised")>>
      e == <<Call("list_transcripts", IF env.listed THEN "ok" ELSE "raised")>>
           \o (IF env.listed THEN fetch_calls(env.fetch) ELSE <<>>)
      first == IF env.listed /\ \E i \in 1..Len(env.fetch) : env.fetch[i]
               THEN Len(fetch_calls(env.fetch)) ELSE 0
  IN IF Has(extract_video_id(video_url), "raised")
     THEN [result |-> extract_video_id(video_url), calls |-> <<>>]
     ELSE IF env.direct THEN [result |-> [text |-> DirectText], calls |-> d]
     ELSE IF ~use_fallback THEN [result |-> PrimaryFailed, calls |-> d]
     ELSE IF first > 0
     THEN [result |-> [text |-> FetchedText(first)], calls |-> d \o e]
     ELSE IF env.langs THEN [result |-> [text |-> LangsText], calls |-> d \o e \o l]
     ELSE [result |-> Remediation, calls |-> d \o e \o l]

\* get_youtube_transcript: its result, and the calls it made to the
\* transcript service in order
get_youtube_transcript(video_url, use_fallback, env) ==
  LET d == <<Call("get_transcript", IF env.direct THEN "ok" ELSE "raised")>>
      l == <<Call("get_transcript_languages", IF env.langs THEN "ok" ELSE "raised")>>
      e == <<Call("list_transcripts", IF env.listed THEN "ok" ELSE "raised")>>
           \o (IF env.listed THEN fetch_calls(env.fetch) ELSE <<>>)
      first == IF env.listed /\ \E i \in 1..Len(env.fetch) : env.fetch[i]
               THEN Len(fetch_calls(env.fetch)) ELSE 0
  IN IF Has(extract_video_id(video_url), "raised")
     THEN [result |-> extract_video_id(video_url), calls |-> <<>>]
     ELSE IF env.direct THEN [result |-> [text |-> DirectText], calls |-> d]
     ELSE IF ~use_fallback THEN [result |-> PrimaryFailed, calls |-> d]
     ELSE IF env.langs THEN [result |-> [text |-> LangsText], calls |-> d \o l]
     ELSE IF first > 0
     THEN [result |-> [text |-> FetchedText(first)], calls |-> d \o l \o e]
     ELSE [result |-> Remediation, calls |-> d \o l \o e]

\* handle_manual_transcript
handle_manual_transcript(manual_transcript) ==
  IF manual_transcript = <<>> \/ strip(manual_transcript) = <<>>
  THEN [raised |-> "ValueError", msg |-> "Manual transcript text is required"]
  ELSE [text |-> strip(manual_transcript)]

\* ---- YouTube: endpoints ----

\* str(e) of an exception
str_e(e) == IF Has(e, "msg") THEN e.msg ELSE e.raised

\* the value of an Optional[str] field that was given
Given(text) == [text |-> text]

\* truth value of an Optional[str]: None and "" are false
truthy(opt) == Has(opt, "text") /\ opt.text # <<>>

ManualTranscripts == {None} \cup {Given(t) : t \in Texts}

\* f"video_{video_id}.txt"
source_name_of(video_id) == <<"video_">> \o video_id \o <<".txt">>

Solutions ==
  <<"Provide manual transcript text", "Use a proxy service", "Process video locally">>

\* mutation of Inserted: the chunks stored under the source are replaced
Inserted_replacing(rk, source, n) ==
  LET kept == SelectSeq(rk, LAMBDA e : e.source # source)
  IN {kept \o [i \in 1..n |-> [source |-> source, score |-> d]] : d \in Scores}

\* the rankings the store can have after it gained n chunks of a source
RECURSIVE Inserted(_, _, _)
Inserted(rk, source, n) ==
  IF n = 0 THEN {rk}
  ELSE UNION {{SubSeq(r, 1, pos - 1) \o <<[source |-> source, score |-> d]>>
                 \o SubSeq(r, pos, Len(r)) : d \in Scores, pos \in 1..(Len(r) + 1)}
              : r \in Inserted(rk, source, n - 1)}

\* upload_youtube_video up to the call of the store: the transcript obtained
\* (or the response that ends the request) and the calls made
upload_youtube_transcript(req, env) ==
  LET id == extract_video_id(req.video_url)
      m == handle_manual_transcript(req.manual_transcript.text)
      t == get_youtube_transcript(req.video_url, req.use_fallback, env)
  IN IF Has(id, "raised")
     THEN [response |-> [status |-> 200,
                         body |-> [success |-> FALSE, error |-> "processing_failed",
                                   message |-> "Failed to process YouTube video",
                                   details |-> str_e(id)]],
           calls |-> <<Call("extract_video_id", id)>>]
     ELSE IF truthy(req.manual_transcript)
     THEN IF Has(m, "raised")
          THEN [response |-> [status |-> 200,
                              body |-> [success |-> FALSE, error |-> "processing_failed",
                                        message |-> "Failed to process YouTube video",
                                        details |-> str_e(m)]],
                calls |-> <<Call("extract_video_id", id),
                            Call("handle_manual_transcript", m)>>]
          ELSE [transcript |-> m.text, source_method |-> "manual",
                calls |-> <<Call("extract_video_id", id),
                            Call("handle_manual_transcript", m)>>]
     ELSE IF Has(t.result, "raised")
     THEN [response |-> [status |-> 200,
                         body |-> [success |-> FALSE, error |-> "transcript_blocked",
                                   message |-> "YouTube transcript retrieval failed",
                                   details |-> str_e(t.result),
                                   video_id |-> id.value,
                                   solutions |-> Solutions]],
           calls |-> <<Call("extract_video_id", id)>> \o t.calls
                     \o <<Call("get_youtube_transcript", t.result)>>]
     ELSE [transcript |-> t.result.text, source_method |-> "automatic",
           calls |-> <<Call("extract_video_id", id)>> \o t.calls
                     \o <<Call("get_youtube_transcript", t.result)>>]

\* upload_youtube_video
upload_youtube_video(video_url, manual_transcript, use_fallback, env, store_ok) ==
  LET req == [endpoint |-> "/upload-youtube/", video_url |-> video_url,
              manual_transcript |-> manual_transcript, use_fallback |-> use_fallback]
      got == upload_youtube_transcript(req, env)
      source_name == source_name_of(extract_video_id(video_url).value)
      chunks == split_text_into_chunks(got.transcript, source_name)
      tail == <<Call("split_text_into_chunks", "returned"),
                Call("create_embeddings_and_store_qdrant", StoreOutcome(store_ok))>>
  IN /\ Idle
     /\ request' = req
     /\ search_result' = None
     /\ IF Has(got, "response")
        THEN /\ response' = got.response
             /\ calls' = got.calls
             /\ UNCHANGED <<ranking, inflight, ingested>>
        ELSE IF ~store_ok
        THEN /\ response' = [status |-> 200,
                             body |-> [success |-> FALSE, error |-> "processing_failed",
                                       message |-> "Failed to process YouTube video",
                                       details |-> str_e(StoreError)]]
             /\ calls' = got.calls \o tail
             /\ UNCHANGED <<ranking, inflight, ingested>>
        ELSE /\ Len(ranking) + Len(chunks) <= MaxStored
             /\ ranking' \in Inserted(ranking, source_name, Len(chunks))
             /\ ingested' = Add(ingested, source_name, Len(chunks))
             /\ UNCHANGED inflight
             /\ response' = [status |-> 200,
                             body |-> [success |-> TRUE,
                                       message |-> "YouTube transcript processed successfully",
                                       video_id |-> extract_video_id(video_url).value,
                                       source |-> source_name,
                                       num_chunks |-> Len(chunks),
                                       transcript_method |-> got.source_method,
                                       transcript_length |-> Len(got.transcript)]]
             /\ calls' = got.calls \o tail

OverFetchSpecific == 10

\* mutation of search_specific_document: the search fetches k, not k * 10
search_specific_document_narrow(rk, document_name, k) ==
  py_head(filter_source(similarity_search(rk, k), document_name), k)

\* search_specific_document
search_specific_document(rk, document_name, k) ==
  py_head(filter_source(similarity_search(rk, k * OverFetchSpecific), document_name), k)

\* query_youtube_video after the search of the database found nothing (or
\* failed): the transcript obtained, or the response that ends the request
query_youtube_transcript(req, env) ==
  LET m == handle_manual_transcript(req.manual_transcript.text)
      t == get_youtube_transcript(req.video_url, TRUE, env)
  IN IF truthy(req.manual_transcript)
     THEN IF Has(m, "raised")
          THEN [response |-> [status |-> 200,
                              body |-> [success |-> FALSE, error |-> "query_failed",
                                        message |-> "Failed to query YouTube video",
                                        details |-> str_e(m)]],
                calls |-> <<Call("handle_manual_transcript", m)>>]
          ELSE [transcript |-> m.text, source_method |-> "manual",
                calls |-> <<Call("handle_manual_transcript", m)>>]
     ELSE IF Has(t.result, "raised")
     THEN [response |-> [status |-> 200,
                         body |-> [success |-> FALSE, error |-> "transcript_blocked",
                                   message |-> "YouTube transcript blocked and no manual transcript provided",
                                   details |-> str_e(t.result),
                                   solutions |-> <<"Provide manual transcript",
                                                   "Upload video first",
                                                   "Use proxy service">>]],
           calls |-> t.calls \o <<Call("get_youtube_transcript", t.result)>>]
     ELSE [transcript |-> t.result.text, source_method |-> "automatic",
           calls |-> t.calls \o <<Call("get_youtube_transcript", t.result)>>]

\* mutation of relevant_chunks_of: every chunk of the transcript is kept
relevant_chunks_all(chunks, k) == chunks

\* relevant_chunks = chunks[:request.k] if len(chunks) > request.k else chunks
relevant_chunks_of(chunks, k) == IF Len(chunks) > k THEN py_head(chunks, k) ELSE chunks

\* mutation of stored_after_query: the chunks of the transcript are stored
stored_after_query_kept(rk, chunks) ==
  rk \o [i \in 1..Len(chunks) |-> [source |-> chunks[i].source, score |-> 1]]

\* The store after query_youtube_video answered from a transcript: the
\* handler has no call of create_embeddings_and_store_qdrant, the chunks
\* serve the one answer.
stored_after_query(rk, chunks) == rk

\* query_youtube_video
query_youtube_video(video_url, manual_transcript, k, env, search_ok, llm) ==
  LET req == [endpoint |-> "/query-youtube/", video_url |-> video_url,
              manual_transcript |-> manual_transcript, k |-> k]
      id == extract_video_id(video_url)
      source_name == source_name_of(id.value)
      results == IF search_ok THEN search_specific_document(ranking, source_name, k)
                 ELSE <<>>
      searched == <<Call("extract_video_id", id),
                    Call("search_specific_document",
                         IF search_ok THEN "returned" ELSE "raised")>>
      got == query_youtube_transcript(req, env)
      chunks == split_text_into_chunks(got.transcript, source_name)
      relevant_chunks == relevant_chunks_of(chunks, k)
  IN /\ Idle
     /\ request' = req
     /\ search_result' = None
     /\ UNCHANGED <<inflight, ingested>>
     /\ ranking' = IF ~Has(id, "raised") /\ results = <<>> /\ ~Has(got, "response")
                   THEN stored_after_query(ranking, chunks) ELSE ranking
     /\ IF Has(id, "raised")
        THEN /\ response' = [status |-> 200,
                             body |-> [success |-> FALSE, error |-> "query_failed",
                                       message |-> "Failed to query YouTube video",
                                       details |-> str_e(id)]]
             /\ calls' = <<Call("extract_video_id", id)>>
        ELSE IF results # <<>>
        THEN /\ response' = [status |-> 200,
                             body |-> [success |-> TRUE,
                                       answer |-> ask_azure_openai(llm).text,
                                       video_id |-> id.value,
                                       source |-> "database",
                                       chunks_found |-> Len(results)]]
             /\ calls' = searched \o <<CallWith("ask_azure_openai", results, llm)>>
        ELSE IF Has(got, "response")
        THEN /\ response' = got.response
             /\ calls' = searched \o got.calls
        ELSE /\ response' = [status |-> 200,
                             body |-> [success |-> TRUE,
                                       answer |-> ask_azure_openai(llm).text,
                                       video_id |-> id.value,
                                       source |-> <<"direct_transcript_", got.source_method>>,
                                       chunks_used |-> Len(relevant_chunks)]]
             /\ calls' = searched \o got.calls
                         \o <<Call("split_text_into_chunks", "returned"),
                              CallWith("ask_azure_openai", relevant_chunks, llm)>>

\* s.replace(old, ""): every occurrence of old is removed
py_replace(s, old) == SelectSeq(s, LAMBDA c : c # old)

\* list_youtube_videos; get_available_documents does not raise
list_youtube_videos(list_ok) ==
  LET documents == get_available_documents(ranking, list_ok)
      videos == SelectSeq(documents, LAMBDA d : startswith_video(d) /\ endswith_txt(d))
      video_id(video) == py_replace(py_replace(video, "video_"), ".txt")
  IN /\ Idle
     /\ request' = [endpoint |-> "/videos/"]
     /\ search_result' = None
     /\ response' = [status |-> 200,
                     body |-> [videos |-> [i \in 1..Len(videos) |->
                                             [video_id |-> video_id(videos[i]),
                                              source_name |-> videos[i],
                                              youtube_url |-> <<"https://www.youtube.com/watch?v=">>
                                                              \o video_id(videos[i])]],
                               count |-> Len(videos)]]
     /\ calls' = <<Call("get_available_documents", StoreOutcome(list_ok))>>
     /\ UNCHANGED <<ranking, inflight, ingested>>

UploadYoutube ==
  Idle /\ \E video_url \in Urls, manual_transcript \in ManualTranscripts, use_fallback \in BOOLEAN,
     env \in TranscriptEnvs, store_ok \in BOOLEAN :
    upload_youtube_video(video_url, manual_transcript, use_fallback, env, store_ok)

QueryYoutube ==
  Idle /\ \E video_url \in Urls, manual_transcript \in ManualTranscripts, k \in Ks,
     env \in TranscriptEnvs, search_ok \in BOOLEAN, llm \in LlmOutcomes :
    query_youtube_video(video_url, manual_transcript, k, env, search_ok, llm)

ListVideos == \E list_ok \in BOOLEAN : list_youtube_videos(list_ok)

NextYoutube == UploadYoutube \/ QueryYoutube \/ ListVideos \/ request_done

SpecYoutube == Init /\ [][NextYoutube]_vars

\* ---- PDF ingestion and the listing endpoints ----

\* the names uploaded files have
Filenames == {<<"a", ".pdf">>, <<"video_", "x", ".txt">>}

\* An uploaded file: its name, its content type and what fitz finds in it:
\* the text of its pages, or nothing it can open (readable FALSE).
UploadFiles ==
  [filename : Filenames, content_type : {"application/pdf"}, readable : {TRUE},
   text : {<<>>, <<" ">>, <<"w">>, <<"w", " ", "w">>}]
  \cup {[filename |-> <<"a", ".pdf">>, content_type |-> "application/pdf",
         readable |-> FALSE, text |-> <<>>],
        [filename |-> <<"a", ".pdf">>, content_type |-> "text/plain",
         readable |-> TRUE, text |-> <<"w">>]}

FileLists == UNION {[1..n -> UploadFiles] : n \in 1..MaxFiles}

\* validate_pdf; str() of the HTTPException is "<status_code>: <detail>"
validate_pdf(file) ==
  IF file.content_type # "application/pdf"
  THEN [raised |-> "HTTPException", status_code |-> 400,
        detail |-> "Invalid file type. Only PDF files are allowed.",
        msg |-> "400: Invalid file type. Only PDF files are allowed."]
  ELSE None

\* mutation of extract_text_from_pdf: a blank text is returned like any other
extract_text_from_pdf_blank(file) ==
  IF ~file.readable
  THEN [raised |-> "RuntimeError", msg |-> "PDF text extraction failed: cannot open"]
  ELSE [text |-> file.text]

\* extract_text_from_pdf: the ValueError for a blank text is raised inside
\* the try and leaves as the RuntimeError of the except
extract_text_from_pdf(file) ==
  IF ~file.readable
  THEN [raised |-> "RuntimeError", msg |-> "PDF text extraction failed: cannot open"]
  ELSE IF strip(file.text) = <<>>
  THEN [raised |-> "RuntimeError",
        msg |-> "PDF text extraction failed: PDF has no extractable text."]
  ELSE [text |-> file.text]

\* mutation of upload_failed: the store is put back as it was before the
\* request and the summaries made so far are returned
upload_failed_rollback(rk, upload_summaries, made, e) ==
  [ranking |-> ranking, calls |-> made,
   response |-> [status |-> 500, detail |-> str_e(e), summary |-> upload_summaries]]

\* the except of upload_pdfs: any exception, the HTTPException of
\* validate_pdf included, is answered with HTTPException(500, str(e)); the
\* store stays as the files before left it
upload_failed(rk, upload_summaries, made, e) ==
  [ranking |-> rk, calls |-> made,
   response |-> [status |-> 500, detail |-> str_e(e)]]

\* upload_pdfs from file i on: the outcomes the request can have, given the
\* store as the files before i left it, their summaries and the calls made;
\* the store call fails for file number store_fail_at. A request that would
\* take the store beyond MaxStored chunks has no outcome in the model.
RECURSIVE upload_pdfs_from(_, _, _, _, _, _)
upload_pdfs_from(files, i, rk, upload_summaries, made, store_fail_at) ==
  IF i > Len(files)
  THEN {[ranking |-> rk, calls |-> made,
         response |-> [status |-> 200,
                       body |-> [message |-> "PDFs processed and stored successfully",
                                 summary |-> upload_summaries]]]}
  ELSE LET file == files[i]
           v == validate_pdf(file)
           text == extract_text_from_pdf(file)
           chunks == split_text_into_chunks(text.text, file.filename)
           failed(e, made_i) == {upload_failed(rk, upload_summaries, made \o made_i, e)}
       IN IF Has(v, "raised") THEN failed(v, <<Call("validate_pdf", "raised")>>)
          ELSE IF Has(text, "raised")
          THEN failed(text, <<Call("validate_pdf", "returned"),
                              Call("extract_text_from_pdf", text)>>)
          ELSE IF store_fail_at = i
          THEN failed(StoreError,
                      <<Call("validate_pdf", "returned"),
                        Call("extract_text_from_pdf", text),
                        Call("split_text_into_chunks", "returned"),
                        Call("create_embeddings_and_store_qdrant", "store_error")>>)
          ELSE UNION {upload_pdfs_from(
                        files, i + 1, rk2,
                        Append(upload_summaries,
                               [filename |-> file.filename, num_chunks |-> Len(chunks)]),
                        made \o <<Call("validate_pdf", "returned"),
                                  Call("extract_text_from_pdf", text),
                                  Call("split_text_into_chunks", "returned"),
                                  Call("create_embeddings_and_store_qdrant", "ok")>>,
                        store_fail_at)
                      : rk2 \in IF Len(rk) + Len(chunks) <= MaxStored
                                  THEN Inserted(rk, file.filename, Len(chunks))
                                  ELSE {}}

\* ingested after the store calls for the first n files returned
RECURSIVE AddFiles(_, _, _)
AddFiles(ing, files, n) ==
  IF n = 0 THEN ing
  ELSE Add(AddFiles(ing, files, n - 1), files[n].filename,
           Len(split_text_into_chunks(files[n].text, files[n].filename)))

\* upload_pdfs
upload_pdfs(files, store_fail_at) ==
  /\ Idle
  /\ \E out \in upload_pdfs_from(files, 1, ranking, <<>>, <<>>, store_fail_at) :
       /\ ranking' = out.ranking
       /\ ingested' = AddFiles(ingested, files,
                               Cardinality({j \in 1..Len(out.calls) :
                                  /\ out.calls[j].fn = "create_embeddings_and_store_qdrant"
                                  /\ out.calls[j].outcome = "ok"}))
       /\ response' = out.response
       /\ calls' = out.calls
  /\ request' = [endpoint |-> "/upload-pdf/", files |-> files]
  /\ search_result' = None
  /\ UNCHANGED inflight

\* list_documents; get_available_documents does not raise
list_documents(list_ok) ==
  LET documents == get_available_documents(ranking, list_ok)
  IN /\ Idle
     /\ request' = [endpoint |-> "/documents/"]
     /\ search_result' = None
     /\ response' = [status |-> 200,
                     body |-> [documents |-> documents, count |-> Len(documents)]]
     /\ calls' = <<Call("get_available_documents", StoreOutcome(list_ok))>>
     /\ UNCHANGED <<ranking, inflight, ingested>>

\* get_content_type_summary
get_content_type_summary(rk, list_ok) ==
  LET documents == get_available_documents(rk, list_ok)
      videos == SelectSeq(documents, LAMBDA d : startswith_video(d))
      pdfs == SelectSeq(documents, LAMBDA d : ~startswith_video(d))
  IN [total_documents |-> Len(documents),
      videos |-> [count |-> Len(videos), sources |-> videos],
      pdfs |-> [count |-> Len(pdfs), sources |-> pdfs]]

\* get_content_summary
get_content_summary(list_ok) ==
  /\ Idle
  /\ request' = [endpoint |-> "/content-summary/"]
  /\ search_result' = None
  /\ response' = [status |-> 200, body |-> get_content_type_summary(ranking, list_ok)]
  /\ calls' = <<Call("get_available_documents", StoreOutcome(list_ok))>>
  /\ UNCHANGED <<ranking, inflight, ingested>>

UploadPdf ==
  Idle /\ \E files \in FileLists, store_fail_at \in 0..MaxFiles :
            upload_pdfs(files, store_fail_at)

ListDocuments == \E list_ok \in BOOLEAN : list_documents(list_ok)

ContentSummary == \E list_ok \in BOOLEAN : get_content_summary(list_ok)

NextPdf == UploadPdf \/ ListDocuments \/ ListVideos \/ ContentSummary \/ request_done

SpecPdf == Init /\ [][NextPdf]_vars

\* ---- ingestion requests served side by side ----

\* Worker w has validated its upload, obtained the text and split it
\* (upload_pdfs up to split_text_into_chunks for one file,
\* upload_youtube_video up to split_text_into_chunks) and calls
\* create_embeddings_and_store_qdrant with the chunks. Nothing in the
\* handlers waits for another request.
ingest_begin(w, source, text) ==
  /\ Idle
  /\ inflight[w] = None
  /\ split_text_into_chunks(text, source) # <<>>
  /\ inflight' = [inflight EXCEPT ![w] =
                    [source |-> source, pc |-> "storing", stored |-> 0,
                     docs |-> Len(split_text_into_chunks(text, source))]]
  /\ UNCHANGED <<ranking, request, search_result, response, calls, ingested>>

\* The store takes one more chunk of the call of worker w; with the last
\* chunk the call returns. Taking the chunks of a call one at a time allows
\* every interleaving the client's batches allow.
ingest_store(w) ==
  /\ Idle
  /\ Has(inflight[w], "pc")
  /\ inflight[w].pc = "storing"
  /\ Len(ranking) < MaxStored
  /\ ranking' \in Inserted(ranking, inflight[w].source, 1)
  /\ IF inflight[w].stored + 1 = inflight[w].docs
     THEN /\ inflight' = [inflight EXCEPT ![w].stored = @ + 1, ![w].pc = "returned"]
          /\ ingested' = Add(ingested, inflight[w].source, inflight[w].docs)
     ELSE /\ inflight' = [inflight EXCEPT ![w].stored = @ + 1]
          /\ UNCHANGED ingested
  /\ UNCHANGED <<request, search_result, response, calls>>

\* the call of worker w raises; what the store took so far stays
ingest_fail(w) ==
  /\ Idle
  /\ Has(inflight[w], "pc")
  /\ inflight[w].pc = "storing"
  /\ inflight' = [inflight EXCEPT ![w].pc = "failed"]
  /\ UNCHANGED <<ranking, request, search_result, response, calls, ingested>>

\* the handler of worker w answers
ingest_done(w) ==
  /\ Idle
  /\ Has(inflight[w], "pc")
  /\ inflight[w].pc \in {"returned", "failed"}
  /\ inflight' = [inflight EXCEPT ![w] = None]
  /\ UNCHANGED <<ranking, request, search_result, response, calls, ingested>>

IngestBegin ==
  \E w \in Workers, source \in Filenames, text \in Texts : ingest_begin(w, source, text)

IngestStore == \E w \in Workers : ingest_store(w)

IngestFail == \E w \in Workers : ingest_fail(w)

IngestDone == \E w \in Workers : ingest_done(w)

NextIngest == IngestBegin \/ IngestStore \/ IngestFail \/ IngestDone

SpecIngest == Init /\ [][NextIngest]_vars

\* ---- /query/ and /query-document/; the service as a whole ----

\* qdrant_similarity_search: the chunks of the most common source among the
\* k nearest; most_common(1)[0] raises on an empty result
qdrant_similarity_search(rk, k) ==
  LET retrieved_chunks == similarity_search(rk, k)
      sources == SeqMap(retrieved_chunks, LAMBDA d : d.source)
      common == most_common_1(sources)
  IN IF common = <<>> THEN [raised |-> "IndexError"]
     ELSE [chunks |-> filter_source(retrieved_chunks, common[1])]

\* query_documents
query_documents(k, llm, search_ok) ==
  LET req == [endpoint |-> "/query/", k |-> k]
      results == IF search_ok THEN qdrant_similarity_search(ranking, k) ELSE StoreError
  IN /\ Idle
     /\ request' = req
     /\ search_result' = results
     /\ IF Has(results, "raised")
        THEN /\ response' = [status |-> 500, detail |-> str_e(results)]
             /\ calls' = <<Call("qdrant_similarity_search", "raised")>>
        ELSE /\ response' = [status |-> 200,
                             body |-> [answer |-> ask_azure_openai(llm).text]]
             /\ calls' = <<Call("qdrant_similarity_search", "returned"),
                           CallWith("ask_azure_openai", results.chunks, llm)>>
     /\ UNCHANGED <<ranking, inflight, ingested>>

\* query_specific_document
query_specific_document(document_name, k, llm, search_ok) ==
  LET req == [endpoint |-> "/query-document/", document_name |-> document_name, k |-> k]
      results == IF search_ok
                 THEN [chunks |-> search_specific_document(ranking, document_name, k)]
                 ELSE StoreError
  IN /\ Idle
     /\ request' = req
     /\ search_result' = results
     /\ IF Has(results, "raised")
        THEN /\ response' = [status |-> 500, detail |-> str_e(results)]
             /\ calls' = <<Call("search_specific_document", "raised")>>
        ELSE IF results.chunks = <<>>
        THEN /\ response' = [status |-> 200,
                             body |-> [answer |-> <<"No relevant information found in document '",
                                                    document_name, "' for your query.">>,
                                       document_queried |-> document_name]]
             /\ calls' = <<Call("search_specific_document", "returned")>>
        ELSE /\ response' = [status |-> 200,
                             body |-> [answer |-> ask_azure_openai(llm).text,
                                       document_queried |-> document_name,
                                       chunks_found |-> Len(results.chunks)]]
             /\ calls' = <<Call("search_specific_document", "returned"),
                           CallWith("ask_azure_openai", results.chunks, llm)>>
     /\ UNCHANGED <<ranking, inflight, ingested>>

\* the names a caller asks /query-document/ for
DocumentNames == Filenames \cup {<<"b", ".pdf">>}

Query ==
  \E k \in Ks, llm \in LlmOutcomes, search_ok \in BOOLEAN : query_documents(k, llm, search_ok)

QueryDocument ==
  \E document_name \in DocumentNames, k \in Ks, llm \in LlmOutcomes, search_ok \in BOOLEAN :
    query_specific_document(document_name, k, llm, search_ok)

\* /query-document/ over a store already filled: any order of up to
\* MaxRanked chunks of a document and of a video, so that the k * 10 fetched
\* can be fewer than the chunks held.
MaxRanked == 11

Rankings ==
  UNION {[1..n -> [source : Filenames, score : {1}]] : n \in 0..MaxRanked}

InitSearch ==
  /\ ranking \in Rankings
  /\ request = None
  /\ search_result = None
  /\ response = None
  /\ calls = <<>>
  /\ inflight = [w \in Workers |-> None]
  /\ ingested = << >>

NextSearch == QueryDocument \/ request_done

SpecSearch == InitSearch /\ [][NextSearch]_vars

\* ---- /youtube-status/ ----

test_video_id == <<"dQw4w9WgXcQ">>
test_url == WatchUrl("www.youtube.com", test_video_id)

\* error_str.lower() of the messages an exception can carry, cut into pieces
\* so that every occurrence of "cloud provider" and of "ip" is a piece
lower(error_str) ==
  IF error_str = Remediation.msg
  THEN <<"transcr", "ip", "t retrieval failed ... youtube blocking ", "cloud provider",
         " ", "ip", "s (azure/aws/gcp) ...">>
  ELSE IF error_str = PrimaryFailed.msg
  THEN <<"primary transcr", "ip", "t retrieval failed">>
  ELSE IF error_str = CouldNotExtract.msg
  THEN <<"could not extract video id from url">>
  ELSE <<error_str>>

\* needle in pieces
py_in(needle, pieces) == \E i \in 1..Len(pieces) : pieces[i] = needle

\* check_youtube_api_status. The request has no input; what the transcript
\* service does for the test video is env, and blocked tells why its calls
\* fail: the service refuses the address of the host (a cloud provider's),
\* or the video has nothing to give. Both are recorded with the request.
check_youtube_api_status(env, blocked) ==
  LET got == get_youtube_transcript(test_url, TRUE, env)
      error_str == str_e(got.result)
  IN /\ Idle
     /\ request' = [endpoint |-> "/youtube-status/", blocked |-> blocked]
     /\ calls' = got.calls
     /\ search_result' = None
     /\ response' =
          IF ~Has(got.result, "raised")
          THEN [status |-> 200,
                body |-> [status |-> "accessible",
                          message |-> "YouTube transcript API is working",
                          environment |-> "local_or_compatible"]]
          ELSE IF py_in("cloud provider", lower(error_str)) \/ py_in("ip", lower(error_str))
          THEN [status |-> 200,
                body |-> [status |-> "blocked_cloud",
                          message |-> "YouTube API blocked - Cloud provider IP detected",
                          environment |-> "cloud_deployment",
                          solutions |-> <<"Use manual transcript upload",
                                          "Implement proxy service",
                                          "Process videos locally">>]]
          ELSE [status |-> 200,
                body |-> [status |-> "error_other",
                          message |-> "YouTube API error - Not cloud-related",
                          error_details |-> error_str]]
     /\ UNCHANGED <<ranking, inflight, ingested>>

\* a service that refuses the host answers none of the calls
YoutubeStatus ==
  \E env \in TranscriptEnvs, blocked \in BOOLEAN :
    /\ blocked => ~env.direct /\ ~env.langs /\ ~env.listed
    /\ check_youtube_api_status(env, blocked)

\* The endpoints that read or write the store and the status endpoint, each
\* with a few of its inputs: uploads of one readable file or of one video, queries of that
\* video with and without a transcript in the request.
UploadPdfOne ==
  Idle /\ \E files \in {fs \in [1..1 -> UploadFiles] : fs[1].readable},
             store_fail_at \in 0..1 :
            upload_pdfs(files, store_fail_at)

UploadYoutubeOne ==
  Idle /\ \E manual_transcript \in {None, Given(<<"w", " ", "w">>)},
             env \in {e \in TranscriptEnvs : e.fetch = <<>>}, store_ok \in BOOLEAN :
            upload_youtube_video(ShortUrl(<<"x">>), manual_transcript, TRUE, env, store_ok)

QueryYoutubeOne ==
  Idle /\ \E manual_transcript \in {None, Given(<<"w", " ", "w">>)}, k \in Ks,
             env \in {e \in TranscriptEnvs : e.fetch = <<>>}, search_ok \in BOOLEAN,
             llm \in LlmOutcomes :
            query_youtube_video(ShortUrl(<<"x">>), manual_transcript, k, env, search_ok, llm)

NextService ==
  \/ UploadPdfOne \/ UploadYoutubeOne
  \/ Query \/ QueryDocument \/ SmartQuery \/ SmartQueryAll \/ QueryYoutubeOne
  \/ ListDocuments \/ ListVideos \/ ContentSummary \/ YoutubeStatus
  \/ request_done

SpecService == Init /\ [][NextService]_vars

\* ---- the claims ----

\* the engine was called for the request being served
SearchRan == request # None /\ search_result # None

\* the engine returned a result (it did not raise)
Returned == SearchRan /\ Has(search_result, "chunks")

\* the positions of the ranking a search with limit n returns
BatchIdx(n) == 1..Min2(n, Len(ranking))

\* the positions among I that hold a chunk of source s
IdxOf(I, s) == {i \in I : ranking[i].source = s}

SourcesIn(I) == {ranking[i].source : i \in I}

RECURSIVE ScoreSum(_)
ScoreSum(I) ==
  IF I = {} THEN 0
  ELSE LET i == CHOOSE i \in I : TRUE IN ranking[i].score + ScoreSum(I \ {i})

\* the k first positions of a set of positions
FirstOf(I, k) == {i \in I : Cardinality({j \in I : j < i}) < k}

\* the returned chunks are chunks of the batch, each at most once, under the
\* source they were stored with
ChunksOfBatch(ch, I) ==
  /\ \A j \in 1..Len(ch) : ch[j].id \in I /\ ch[j].source = ranking[ch[j].id].source
  /\ \A a, b \in 1..Len(ch) : a # b => ch[a].id # ch[b].id

\* C1: best_match on a non-empty batch of k*5 scored chunks returns
\* document_scores with exactly one entry per source of the batch, each the
\* arithmetic mean of that source's scores, and primary_source is a source of
\* the batch whose mean no other entry undercuts.
C1_BestMatchMeans ==
  (SearchRan /\ request.strategy = "best_match" /\ ranking # <<>>) =>
    /\ Returned
    /\ LET I == BatchIdx(request.k * 5)
           ds == search_result.document_scores
           p == search_result.primary_source
       IN /\ DOMAIN ds = SourcesIn(I)
          /\ \A s \in SourcesIn(I) :
               /\ ds[s].den > 0
               /\ ds[s].num * Cardinality(IdxOf(I, s)) = ds[s].den * ScoreSum(IdxOf(I, s))
          /\ p \in SourcesIn(I)
          /\ \A s \in SourcesIn(I) : ds[p].num * ds[s].den <= ds[s].num * ds[p].den

\* three sources with three different means, one of them not a whole number,
\* and the best source not ranked first
C1_Witness ==
  /\ Returned /\ request.strategy = "best_match"
  /\ LET ds == search_result.document_scores
         p == search_result.primary_source
     IN /\ Cardinality(DOMAIN ds) >= 3
        /\ \A s, t \in DOMAIN ds : s # t => ds[s].num * ds[t].den # ds[t].num * ds[s].den
        /\ ranking[1].source # p
        /\ \E s \in DOMAIN ds : ds[s].num % ds[s].den # 0

\* C2: the chunks best_match returns are chunks of primary_source only, at
\* most k of them: the first k chunks of that source in batch order, in that
\* order.
C2_BestMatchChunks ==
  (Returned /\ request.strategy = "best_match") =>
    LET I == BatchIdx(request.k * 5)
        ch == search_result.chunks
        p == search_result.primary_source
    IN /\ Len(ch) <= request.k
       /\ ChunksOfBatch(ch, I)
       /\ \A j \in 1..Len(ch) : ch[j].source = p
       /\ \A a, b \in 1..Len(ch) : a < b => ch[a].id < ch[b].id
       /\ {ch[j].id : j \in 1..Len(ch)} = FirstOf(IdxOf(I, p), request.k)

\* the source has more than k chunks, and batch order is not score order
C2_Witness ==
  /\ Returned /\ request.strategy = "best_match"
  /\ LET ch == search_result.chunks
         p == search_result.primary_source
     IN /\ Cardinality(IdxOf(BatchIdx(request.k * 5), p)) > request.k
        /\ Len(ch) >= 2
        /\ ranking[ch[1].id].score > ranking[ch[2].id].score
        /\ Cardinality(SourcesIn(BatchIdx(request.k * 5))) >= 2

\* C3: single_source on k retrieved chunks picks as primary_source a source
\* with the highest occurrence count among them and returns exactly the
\* retrieved chunks of that source, in retrieval order.
C3_SingleSourceMajority ==
  (SearchRan /\ request.strategy = "single_source" /\ ranking # <<>>) =>
    /\ Returned
    /\ LET I == BatchIdx(request.k)
           ch == search_result.chunks
           p == search_result.primary_source
       IN /\ p \in SourcesIn(I)
          /\ \A s \in SourcesIn(I) : Cardinality(IdxOf(I, s)) <= Cardinality(IdxOf(I, p))
          /\ ChunksOfBatch(ch, I)
          /\ {ch[j].id : j \in 1..Len(ch)} = IdxOf(I, p)
          /\ \A a, b \in 1..Len(ch) : a < b => ch[a].id < ch[b].id

\* the majority source is not the nearest chunk's, and chunks of the corpus
\* beyond the k retrieved ones do not count
C3_Witness ==
  /\ Returned /\ request.strategy = "single_source"
  /\ LET I == BatchIdx(request.k)
         p == search_result.primary_source
     IN /\ ranking[1].source # p
        /\ Cardinality(SourcesIn(I)) >= 2
        /\ Len(search_result.chunks) = 2
        /\ Len(ranking) > request.k

\* the first position among I that holds a chunk of source s
FirstIdx(I, s) == CHOOSE i \in IdxOf(I, s) : \A j \in IdxOf(I, s) : i <= j

\* the sources with the highest occurrence count among the positions I
TopSources(I) ==
  {s \in SourcesIn(I) :
     \A t \in SourcesIn(I) : Cardinality(IdxOf(I, t)) <= Cardinality(IdxOf(I, s))}

\* C4: when several sources share the highest occurrence count among the
\* retrieved chunks, single_source picks the one of them whose first chunk
\* comes earliest in the retrieved list.
C4_SingleSourceTieBreak ==
  (Returned /\ request.strategy = "single_source") =>
    LET I == BatchIdx(request.k)
        p == search_result.primary_source
    IN /\ p \in TopSources(I)
       /\ \A s \in TopSources(I) : FirstIdx(I, p) <= FirstIdx(I, s)

\* two sources tie at two chunks each
C4_Witness ==
  /\ Returned /\ request.strategy = "single_source"
  /\ LET I == BatchIdx(request.k)
     IN /\ Cardinality(TopSources(I)) = 2
        /\ Len(search_result.chunks) = 2
        /\ ranking[Len(ranking)].source = search_result.primary_source

\* the number of returned chunks that belong to source s
CountIn(ch, s) == Cardinality({j \in 1..Len(ch) : ch[j].source = s})

\* C5: the chunks multi_doc returns come from at most 3 distinct sources,
\* at most 2 of them from any one source, and they are at most k.
C5_MultiDocCaps ==
  (Returned /\ request.strategy = "multi_doc") =>
    LET ch == search_result.chunks
    IN /\ Cardinality({ch[j].source : j \in 1..Len(ch)}) <= 3
       /\ \A s \in Sources : CountIn(ch, s) <= 2
       /\ Len(ch) <= request.k

\* four sources were retrieved and k allows four chunks: three are returned
C5_Witness ==
  /\ Returned /\ request.strategy = "multi_doc"
  /\ Cardinality(SourcesIn(BatchIdx(request.k * 3))) = 4
  /\ request.k >= 4
  /\ Len(search_result.chunks) = 3

\* the best (lowest) score of source s among the positions I
MinScore(I, s) ==
  CHOOSE m \in {ranking[i].score : i \in IdxOf(I, s)} :
    \A i \in IdxOf(I, s) : m <= ranking[i].score

\* the position of source s in the list su
PosIn(su, s) == CHOOSE i \in 1..Len(su) : su[i] = s

\* C6: multi_doc lists in sources_used the (up to 3) sources of the batch of
\* k*3 chunks with the smallest minimum scores, in ascending order of minimum
\* score; the returned chunks follow that order source by source, each source
\* giving its 2 lowest-score chunks in ascending score order (a source with a
\* single chunk gives that one; the list stops after k chunks).
C6_MultiDocOrder ==
  (Returned /\ request.strategy = "multi_doc") =>
    LET I == BatchIdx(request.k * 3)
        ch == search_result.chunks
        su == search_result.sources_used
        used == {su[i] : i \in 1..Len(su)}
        quota(s) == Min2(2, Cardinality(IdxOf(I, s)))
        ids == {ch[j].id : j \in 1..Len(ch)}
    IN /\ used \subseteq SourcesIn(I)
       /\ Len(su) = Min2(3, Cardinality(SourcesIn(I)))
       /\ \A a, b \in 1..Len(su) : a < b =>
            su[a] # su[b] /\ MinScore(I, su[a]) <= MinScore(I, su[b])
       /\ \A s \in SourcesIn(I) \ used :
            \A u \in used : MinScore(I, u) <= MinScore(I, s)
       /\ ChunksOfBatch(ch, I)
       /\ \A j \in 1..Len(ch) : ch[j].source \in used
       /\ \A a, b \in 1..Len(ch) : a < b =>
            /\ PosIn(su, ch[a].source) <= PosIn(su, ch[b].source)
            /\ ch[a].source = ch[b].source =>
                 ranking[ch[a].id].score <= ranking[ch[b].id].score
       /\ \A j \in 1..Len(ch) :
            \A i \in IdxOf(I, ch[j].source) \ ids :
              ranking[ch[j].id].score <= ranking[i].score
       /\ \A j \in 1..Len(ch) :
            \A a \in 1..(PosIn(su, ch[j].source) - 1) : CountIn(ch, su[a]) = quota(su[a])
       /\ LET RECURSIVE total(_)
              total(n) == IF n = 0 THEN 0 ELSE quota(su[n]) + total(n - 1)
          IN Len(ch) = Min2(request.k, total(Len(su)))

\* the order of sources_used is not the order of first appearance, and a
\* source gives two chunks that are not its first two of the batch
C6_Witness ==
  /\ Returned /\ request.strategy = "multi_doc"
  /\ LET I == BatchIdx(request.k * 3)
         ch == search_result.chunks
         su == search_result.sources_used
     IN /\ Len(su) >= 2
        /\ su[1] # ranking[1].source
        /\ Len(ch) >= 2
        /\ ch[1].source = ch[2].source
        /\ \E i \in IdxOf(I, ch[1].source) : i < ch[1].id /\ i < ch[2].id
        /\ MinScore(I, su[1]) < MinScore(I, su[2])

\* C7: sources_used of multi_doc is exactly the set of sources that have a
\* chunk among the returned chunks.
C7_SourcesUsedContribute ==
  (Returned /\ request.strategy = "multi_doc") =>
    LET ch == search_result.chunks
        su == search_result.sources_used
    IN {su[i] : i \in 1..Len(su)} = {ch[j].source : j \in 1..Len(ch)}

\* C8: when the search returns no chunk, the engine returns, whatever the
\* strategy, a result with an empty chunks list and neither a primary_source
\* nor a sources_used key.
C8_EmptyResult ==
  (SearchRan /\ ranking = <<>>) =>
    /\ Returned
    /\ search_result.chunks = <<>>
    /\ ~Has(search_result, "primary_source")
    /\ ~Has(search_result, "sources_used")

\* C9: a call with an unknown strategy name does not raise and returns what
\* the call with single_source returns for the same corpus and k.
C9_UnknownIsSingleSource ==
  (SearchRan /\ request.strategy = "semantic") =>
    /\ Returned
    /\ search_result = smart_document_search(ranking, request.k, "single_source")

\* C10: strategy_used in every response body of /smart-query/ and
\* /smart-query-all/ is one of the three strategies, and the one the engine
\* applied when it ran.
C10_StrategyUsedApplied ==
  (/\ request # None
   /\ request.endpoint \in {"/smart-query/", "/smart-query-all/"}
   /\ Has(response, "body")) =>
    /\ response.body.strategy_used \in {"single_source", "best_match", "multi_doc"}
    /\ Returned => response.body.strategy_used = search_result.strategy_used

\* the outcomes of the calls made to fn while serving the request
Called(fn) == {calls[i].outcome : i \in {j \in 1..Len(calls) : calls[j].fn = fn}}

TypeOf(source) == IF startswith_video(source) THEN "video" ELSE "pdf"

\* the store holds a chunk of the content type
StoredOfType(content_type) ==
  \E i \in 1..Len(ranking) : content_type \in {"all", TypeOf(ranking[i].source)}

\* C11: when /smart-query-all/ is asked for "video" or "pdf", every chunk
\* retrieved, primary_source and every entry of sources_used are of that
\* type, and source_type equals content_type.
C11_RetrievalScoped ==
  (/\ request # None
   /\ request.endpoint = "/smart-query-all/"
   /\ request.content_type \in {"video", "pdf"}
   /\ Returned
   /\ Has(response, "body")) =>
    /\ \A i \in 1..Len(search_result.chunks) :
         TypeOf(search_result.chunks[i].source) = request.content_type
    /\ Has(response.body, "primary_source") =>
         TypeOf(response.body.primary_source) = request.content_type
    /\ Has(response.body, "sources_used") =>
         \A i \in 1..Len(response.body.sources_used) :
           TypeOf(response.body.sources_used[i]) = request.content_type
    /\ Has(response.body, "source_type") =>
         response.body.source_type = request.content_type

\* C12: when the store holds nothing of the requested content type (or the
\* listing of its sources came back empty because the store failed),
\* /smart-query-all/ answers with the no-content response and calls neither
\* smart_document_search nor ask_azure_openai.
C12_NoContentShortCircuit ==
  (/\ request # None
   /\ request.endpoint = "/smart-query-all/"
   /\ \/ ~StoredOfType(request.content_type)
      \/ Called("get_available_documents") = {"store_error"}) =>
    /\ Called("smart_document_search") = {}
    /\ Called("ask_azure_openai") = {}
    /\ response = [status |-> 200,
                   body |-> [answer |-> <<"No ", request.content_type,
                                          " content found in the database.">>,
                             strategy_used |-> request.strategy,
                             content_type |-> request.content_type]]

\* a "video" request against a store that holds only PDF chunks
C12_Witness ==
  /\ request # None
  /\ request.endpoint = "/smart-query-all/"
  /\ request.content_type = "video"
  /\ ranking # <<>>
  /\ ~StoredOfType("video")
  /\ Called("get_available_documents") = {"ok"}
  /\ Called("smart_document_search") = {}

\* C13: a failure of the completion service is not raised: the endpoint that
\* called ask_azure_openai answers normally, and its answer is the text that
\* begins with 'Error generating response: '.
C13_SynthesisFailureIsAnAnswer ==
  \A o \in Called("ask_azure_openai") :
    /\ response.status = 200
    /\ Has(response.body, "answer")
    /\ (o # "ok") <=> (response.body.answer[1] = "Error generating response: ")

\* retrieval found chunks and the completion call failed
C13_Witness ==
  /\ request # None
  /\ Called("smart_document_search") = {"returned"}
  /\ Called("ask_azure_openai") = {"completion_error"}
  /\ response.status = 200
  /\ response.body.chunks_used >= 1
  /\ response.body.answer = <<"Error generating response: ", "completion_error">>

\* the request names a video URL
HasUrl == request # None /\ Has(request, "video_url")

\* C14: extract_video_id returns X for the watch URL of www.youtube.com and
\* of youtube.com with v=X and for youtu.be/X, and raises the invalid-URL
\* error for any other host and for a youtube.com URL without a v parameter.
C14_ExtractVideoId ==
  \A o \in Called("extract_video_id") :
    LET url == request.video_url
    IN /\ \A X \in VideoIds :
            /\ \A h \in {"www.youtube.com", "youtube.com"} :
                 url = WatchUrl(h, X) => o = [value |-> X]
            /\ url = ShortUrl(X) => o = [value |-> X]
       /\ url.hostname \notin {"www.youtube.com", "youtube.com", "youtu.be"}
            => o = CouldNotExtract
       /\ (/\ url.hostname \in {"www.youtube.com", "youtube.com"}
           /\ \A i \in 1..Len(url.query) : url.query[i].key # "v")
            => o = CouldNotExtract

\* the short form of a video whose id is made of several pieces
C14_Witness ==
  /\ HasUrl
  /\ request.video_url = ShortUrl(<<"x", ".txt">>)
  /\ Called("extract_video_id") = {[value |-> <<"x", ".txt">>]}

\* the store holds a chunk of the source
Stored(source) == \E i \in 1..Len(ranking) : ranking[i].source = source

\* C15: every chunk of a successful /upload-youtube/ is stored under
\* video_X.txt, and /videos/ reports for that source the video_id X and a
\* youtube_url that ends in v=X, whatever X contains.
C15_VideoRoundTrip ==
  /\ (/\ request # None
      /\ request.endpoint = "/upload-youtube/"
      /\ response.body.success) =>
       /\ response.body.source = source_name_of(response.body.video_id)
       /\ Stored(response.body.source)
  /\ (/\ request # None
      /\ request.endpoint = "/videos/"
      /\ Called("get_available_documents") = {"ok"}) =>
       \A X \in VideoIds :
         Stored(source_name_of(X)) =>
           \E i \in 1..Len(response.body.videos) :
             /\ response.body.videos[i].source_name = source_name_of(X)
             /\ response.body.videos[i].video_id = X
             /\ response.body.videos[i].youtube_url
                  = <<"https://www.youtube.com/watch?v=">> \o X

\* the calls made to the transcript service, in order
TranscriptCalls ==
  SelectSeq(calls, LAMBDA c : c.fn \in {"get_transcript", "get_transcript_languages",
                                        "list_transcripts", "fetch"})

\* get_youtube_transcript ran with the fallback enabled
FallbackEnabled ==
  /\ HasUrl
  /\ request.endpoint = "/upload-youtube/" => request.use_fallback

\* C16: with the fallback enabled the methods are tried in the order direct
\* fetch, restricted-language fetch, enumeration; a method is tried only
\* after every earlier one failed; the text of the first that succeeds is
\* returned; the remediation error is raised only after all three failed.
C16_FallbackOrder ==
  \A r \in Called("get_youtube_transcript") :
    FallbackEnabled =>
      LET T == TranscriptCalls
          n == Len(T)
      IN /\ n >= 1
         /\ \A i \in 1..n :
              T[i].fn = (IF i = 1 THEN "get_transcript"
                         ELSE IF i = 2 THEN "get_transcript_languages"
                         ELSE IF i = 3 THEN "list_transcripts" ELSE "fetch")
         /\ \A i \in 1..(n - 1) : T[i].outcome = "raised" \/ i = 3
         /\ T[n].outcome = "ok" /\ n # 3 =>
              r = [text |-> (IF n = 1 THEN DirectText
                             ELSE IF n = 2 THEN LangsText ELSE FetchedText(n - 3))]
         /\ Has(r, "raised") <=> (n >= 3 /\ (T[n].outcome = "raised" \/ n = 3))
         /\ Has(r, "raised") => r = Remediation

\* the second transcript of the enumeration is the first call that answers
C16_Witness ==
  /\ FallbackEnabled
  /\ Called("get_youtube_transcript") = {[text |-> FetchedText(2)]}
  /\ TranscriptCalls = <<Call("get_transcript", "raised"),
                         Call("get_transcript_languages", "raised"),
                         Call("list_transcripts", "ok"),
                         Call("fetch", "raised"), Call("fetch", "ok")>>

\* C17: a failure in /upload-youtube/ or /query-youtube/ is answered with a
\* normal response whose body has success == false and the fields error,
\* message, details and solutions; no HTTP error is raised.
C17_FailureBody ==
  HasUrl =>
    /\ response.status = 200
    /\ ~response.body.success =>
         \A f \in {"error", "message", "details", "solutions"} : Has(response.body, f)

\* C18: /upload-youtube/ with a manual_transcript that is empty or only
\* whitespace (and a URL that names a video) fails with the validation
\* failure and stores nothing.
C18_BlankManualTranscript ==
  (/\ HasUrl
   /\ request.endpoint = "/upload-youtube/"
   /\ Has(request.manual_transcript, "text")
   /\ strip(request.manual_transcript.text) = <<>>
   /\ ~Has(extract_video_id(request.video_url), "raised")) =>
    /\ ~response.body.success
    /\ response.body.details = "Manual transcript text is required"
    /\ Called("create_embeddings_and_store_qdrant") = {}

\* the number of calls made to fn while serving the request
CountCalls(fn) == Cardinality({j \in 1..Len(calls) : calls[j].fn = fn})

\* the file of an /upload-pdf/ request that was being processed last
LastFile == request.files[CountCalls("validate_pdf")]

\* the chunks the files of the list that are named s are split into
RECURSIVE ChunksOf(_, _)
ChunksOf(files, s) ==
  IF files = <<>> THEN 0
  ELSE ChunksOf(Tail(files), s)
       + (IF Head(files).filename = s
          THEN Len(SelectSeq(Head(files).text, LAMBDA c : c # " ")) ELSE 0)

\* the chunks of source s in a ranking
StoredOf(rk, s) == Cardinality({i \in 1..Len(rk) : rk[i].source = s})

\* C19: when the text of an uploaded PDF is empty or only whitespace,
\* /upload-pdf/ fails with the extraction error at that file; the file is
\* neither chunked nor stored: the store gains the chunks of the files
\* before it and nothing else.
C19_BlankPdf ==
  [][(/\ Has(request', "files")
      /\ LastFile'.content_type = "application/pdf"
      /\ LastFile'.readable
      /\ strip(LastFile'.text) = <<>>) =>
       /\ response' = [status |-> 500,
                       detail |-> "PDF text extraction failed: PDF has no extractable text."]
       /\ CountCalls("split_text_into_chunks")' = CountCalls("validate_pdf")' - 1
       /\ CountCalls("create_embeddings_and_store_qdrant")'
            = CountCalls("validate_pdf")' - 1
       /\ \A s \in Filenames :
            StoredOf(ranking', s)
              = StoredOf(ranking, s)
                + ChunksOf(SubSeq(request'.files, 1, CountCalls("validate_pdf")' - 1), s)]_vars

\* a whitespace-only PDF that follows a file that was stored
C19_Witness ==
  /\ request # None
  /\ request.endpoint = "/upload-pdf/"
  /\ CountCalls("validate_pdf") = 2
  /\ CountCalls("create_embeddings_and_store_qdrant") = 1
  /\ LastFile.readable
  /\ LastFile.text = <<" ">>
  /\ ranking # <<>>
  /\ response.status = 500

\* C20: a failure of the vector store while /documents/, /videos/ or
\* /content-summary/ is served is answered with a failure response, never
\* with a successful empty listing.
C20_ListingFailureSurfaces ==
  (/\ request # None
   /\ request.endpoint \in {"/documents/", "/videos/", "/content-summary/"}
   /\ Called("get_available_documents") = {"store_error"}) =>
    \/ response.status # 200
    \/ Has(response.body, "error")

\* the chunks of source s taken from calls that have not returned
RECURSIVE PartlyStored(_, _)
PartlyStored(W, s) ==
  IF W = {} THEN 0
  ELSE LET w == CHOOSE w \in W : TRUE
       IN PartlyStored(W \ {w}, s)
          + (IF /\ Has(inflight[w], "pc")
                /\ inflight[w].pc \in {"storing", "failed"}
                /\ inflight[w].source = s
             THEN inflight[w].stored ELSE 0)

\* C21: whatever the order and interleaving of the ingestions, the store
\* holds every chunk of every store call that returned, and every chunk
\* taken from the calls still running: nothing stored under a source is
\* deleted, replaced or merged when the source is ingested again.
C21_IngestionAccumulates ==
  \A s \in Filenames :
    StoredOf(ranking, s)
      >= (IF s \in DOMAIN ingested THEN ingested[s] ELSE 0) + PartlyStored(Workers, s)

\* two ingestions of the same source, in flight together, have both returned
C21_Witness ==
  /\ \A w \in Workers : Has(inflight[w], "pc") /\ inflight[w].pc = "returned"
  /\ inflight[1].source = inflight[2].source
  /\ ingested = (inflight[1].source :> 2)
  /\ StoredOf(ranking, inflight[1].source) = 2

\* the calls made for one file that was stored, and the steps in order
FileSteps ==
  <<"validate_pdf", "extract_text_from_pdf", "split_text_into_chunks",
    "create_embeddings_and_store_qdrant">>

\* C22: /upload-pdf/ takes the files in upload order, each through validate,
\* extract, chunk, store; when file i fails the chunks of the files before
\* it stay stored, no later file is processed, and the response is an error
\* without a summary.
C22_MultiFileNoRollback ==
  [][Has(request', "files") =>
       LET files == request'.files
           i == CountCalls("validate_pdf")'
           ok == response'.status = 200
       IN /\ i \in 1..Len(files)
          /\ \A j \in 1..Len(calls') :
               /\ calls'[j].fn = FileSteps[((j - 1) % 4) + 1]
               /\ j <= 4 * (i - 1) =>
                    calls'[j].outcome
                      = (IF (j - 1) % 4 = 1
                         THEN [text |-> files[((j - 1) \div 4) + 1].text]
                         ELSE IF (j - 1) % 4 = 3 THEN "ok" ELSE "returned")
          /\ Len(calls') > 4 * (i - 1)
          /\ ok <=> (i = Len(files) /\ Len(calls') = 4 * i
                     /\ calls'[Len(calls')].outcome = "ok")
          /\ ~ok =>
               /\ DOMAIN response' = {"status", "detail"}
               /\ \A s \in Filenames :
                    StoredOf(ranking', s)
                      = StoredOf(ranking, s) + ChunksOf(SubSeq(files, 1, i - 1), s)]_vars

\* the second of two files fails at the store after the first was stored
C22_Witness ==
  /\ request # None
  /\ request.endpoint = "/upload-pdf/"
  /\ Len(request.files) = 2
  /\ Called("create_embeddings_and_store_qdrant") = {"ok", "store_error"}
  /\ StoredOf(ranking, request.files[1].filename) >= 1
  /\ response.status = 500

\* C23: a file whose content type is not application/pdf is rejected by
\* /upload-pdf/ with status 400 and detail 'Invalid file type. Only PDF
\* files are allowed.', and nothing of it is stored.
C23_NonPdfRejected ==
  (/\ request # None
   /\ request.endpoint = "/upload-pdf/"
   /\ LastFile.content_type # "application/pdf") =>
    /\ response.status = 400
    /\ response.detail = "Invalid file type. Only PDF files are allowed."
    /\ CountCalls("create_embeddings_and_store_qdrant") = CountCalls("validate_pdf") - 1

\* what ask_azure_openai was called with while serving the request
Context ==
  LET j == CHOOSE j \in 1..Len(calls) : calls[j].fn = "ask_azure_openai"
  IN calls[j].args

\* the transcript was asked for: from the request or from the service
TranscriptAttempted ==
  \/ TranscriptCalls # <<>>
  \/ Called("get_youtube_transcript") # {}
  \/ Called("handle_manual_transcript") # {}

\* the text the transcript step yielded
TranscriptText ==
  LET j == CHOOSE j \in 1..Len(calls) :
             calls[j].fn \in {"get_youtube_transcript", "handle_manual_transcript"}
  IN calls[j].outcome.text

\* C24: in /query-youtube/, when the search of the stored chunks of
\* video_<id>.txt returns a chunk, the answer is made from the stored chunks
\* (source 'database') and no transcript is asked for; a transcript is asked
\* for only when the search returned nothing or failed, and then the first k
\* chunks of the transcript, in reading order, go to synthesis.
C24_DatabaseFirst ==
  (/\ HasUrl
   /\ request.endpoint = "/query-youtube/"
   /\ Called("search_specific_document") # {}) =>
    LET source_name == source_name_of(extract_video_id(request.video_url).value)
        found == \E i \in BatchIdx(request.k * 10) : ranking[i].source = source_name
        searched == Called("search_specific_document") = {"returned"}
    IN /\ (searched /\ found) =>
            /\ ~TranscriptAttempted
            /\ response.body.success
            /\ response.body.source = "database"
            /\ Context # <<>>
            /\ \A i \in 1..Len(Context) : Context[i].source = source_name
            /\ response.body.chunks_found = Len(Context)
       /\ TranscriptAttempted => (~searched \/ ~found)
       /\ (~searched \/ ~found) => TranscriptAttempted
       /\ (response.body.success /\ TranscriptAttempted) =>
            LET total == Len(SelectSeq(TranscriptText, LAMBDA c : c # " "))
            IN /\ Len(Context) = Min2(request.k, total)
               /\ \A i \in 1..Len(Context) :
                    Context[i] = [source |-> source_name, part |-> i]
               /\ response.body.chunks_used = Len(Context)

\* a transcript of two chunks answers a query with k = 1 for a video that
\* is not stored
C24_Witness ==
  /\ HasUrl
  /\ request.endpoint = "/query-youtube/"
  /\ request.k = 1
  /\ ranking # <<>>
  /\ TranscriptAttempted
  /\ response.body.success
  /\ Len(SelectSeq(TranscriptText, LAMBDA c : c # " ")) = 2
  /\ Len(Context) = 1

\* C25: a request to a query or listing endpoint leaves the store as it
\* was, /query-youtube/ with a fetched or supplied transcript included; the
\* store changes only in requests to /upload-pdf/ and /upload-youtube/.
C25_QueriesLeaveStore ==
  [][/\ (/\ Has(request', "endpoint")
         /\ request'.endpoint \in {"/query/", "/query-document/", "/smart-query/",
                                   "/smart-query-all/", "/query-youtube/", "/documents/",
                                   "/videos/", "/content-summary/"})
          => ranking' = ranking
     /\ ranking' # ranking =>
          /\ Has(request', "endpoint")
          /\ request'.endpoint \in {"/upload-pdf/", "/upload-youtube/"}]_vars

\* /query-youtube/ answered from a transcript given in the request while the
\* store has room and holds nothing of the video
C25_Witness ==
  /\ HasUrl
  /\ request.endpoint = "/query-youtube/"
  /\ Called("handle_manual_transcript") # {}
  /\ response.body.success
  /\ response.body.chunks_used = 2
  /\ Len(ranking) = 1
  /\ ~Stored(source_name_of(<<"x">>))

\* the positions of the chunks a /query-document/ request was answered with
FoundIds == {search_result.chunks[i].id : i \in 1..Len(search_result.chunks)}

\* C26: search_specific_document returns at most k chunks, all of the named
\* document, in rank order: the first k of the document among the k * 10
\* nearest. With no chunk /query-document/ answers 'No relevant information
\* found ...' and does not call the synthesis; otherwise chunks_found is the
\* number of chunks the synthesis was called with.
C26_SpecificDocument ==
  (/\ Has(request, "endpoint")
   /\ request.endpoint = "/query-document/"
   /\ Called("search_specific_document") = {"returned"}) =>
    LET k == request.k
        name == request.document_name
        chunks == search_result.chunks
        I == IdxOf(BatchIdx(k * 10), name)
    IN /\ Len(chunks) <= k
       /\ \A i \in 1..Len(chunks) : chunks[i].source = name
       /\ \A i, j \in 1..Len(chunks) : i < j => chunks[i].id < chunks[j].id
       /\ FoundIds \subseteq I
       /\ Len(chunks) = Min2(k, Cardinality(I))
       /\ \A i \in I \ FoundIds : \A f \in FoundIds : f < i
       /\ response.status = 200
       /\ response.body.document_queried = name
       /\ IF chunks = <<>>
          THEN /\ response.body.answer = <<"No relevant information found in document '",
                                           name, "' for your query.">>
               /\ ~Has(response.body, "chunks_found")
               /\ Called("ask_azure_openai") = {}
          ELSE /\ CountCalls("ask_azure_openai") = 1
               /\ Context = chunks
               /\ response.body.chunks_found = Len(Context)

\* k = 1 and the store holds the document at ranks 10 and 11 only: the chunk
\* at rank 10 is found
C26_Witness ==
  /\ Has(request, "endpoint")
  /\ request.endpoint = "/query-document/"
  /\ request.k = 1
  /\ Len(ranking) = 11
  /\ IdxOf(1..11, request.document_name) = {10, 11}
  /\ Called("ask_azure_openai") # {}
  /\ response.body.chunks_found = 1
  /\ FoundIds = {10}

\* the document is held, but below the k * 10 nearest: nothing is found
C26_WitnessBelow ==
  /\ Has(request, "endpoint")
  /\ request.endpoint = "/query-document/"
  /\ IdxOf(1..Len(ranking), request.document_name) = {11}
  /\ Called("search_specific_document") = {"returned"}
  /\ search_result.chunks = <<>>

\* a call to the transcript service was answered while serving the request
TranscriptAnswered ==
  "ok" \in Called("get_transcript") \cup Called("get_transcript_languages") \cup Called("fetch")

\* C27: /youtube-status/ answers 'accessible' when a transcript of the test
\* video was retrieved, 'blocked_cloud' when retrieval failed because the
\* service refuses the host's address, and 'error_other' when it failed for
\* another reason.
C27_StatusByCause ==
  (Has(request, "endpoint") /\ request.endpoint = "/youtube-status/") =>
    response.body.status =
      IF TranscriptAnswered THEN "accessible"
      ELSE IF request.blocked THEN "blocked_cloud"
      ELSE "error_other"

\* whatever the transcript service does, /youtube-status/ never answers
\* 'error_other'
StatusNeverErrorOther ==
  (Has(request, "endpoint") /\ request.endpoint = "/youtube-status/") =>
    response.body.status \in {"accessible", "blocked_cloud"}

====
